---- MODULE Spec2Model ----
(***************************************************************************)
(* Calendar AI Agent: the voice-capture-and-submit pipeline of the         *)
(* renderer (src/renderer.js), the main-process IPC handlers               *)
(* (src/unnamed/part_001) and the preload bridge (src/unnamed/part_000).   *)
(* The window and the tray of the main process and the React component     *)
(* src/VoiceInput.js are modelled beside it, each with its own variables.  *)
(*                                                                         *)
(* One action is one task of the single-threaded event loop: a handler     *)
(* runs from its entry to its first await (or its end), and the            *)
(* continuation after an await is a separate action.                       *)
(***************************************************************************)
EXTENDS Integers, Sequences, FiniteSets, TLC

\* ---------------------------------------------------------------- bounds
\* startRecording() invocations the user can make in one run
MaxSessions == 2
\* sendPrompt() invocations that reach the backend call in one run
MaxPrompts == 2
\* loadCalendars() invocations in one run, the one of DOMContentLoaded included
MaxLoads == 2

\* user gestures that lead to a backend call (a recording, a prompt, a calendar
\* load) in one run of the application as a whole
MaxCalls == 2

Sessions == 1..MaxSessions
Prompts == 1..MaxPrompts
Loads == 1..MaxLoads

\* ------------------------------------------------------- strings, values
\* A string is a sequence of tokens; the token " " is white space.
Space == " "

RECURSIVE trimStart(_)
\* String.prototype.trim, leading part
trimStart(s) ==
  IF s # <<>> /\ Head(s) = Space THEN trimStart(Tail(s)) ELSE s

RECURSIVE trimEnd(_)
\* String.prototype.trim, trailing part
trimEnd(s) ==
  IF s # <<>> /\ s[Len(s)] = Space THEN trimEnd(SubSeq(s, 1, Len(s) - 1)) ELSE s

\* String.prototype.trim as used by sendPrompt
trim(s) == trimEnd(trimStart(s))

\* An optional property of a backend JSON object: {} when absent, {v} when present.
Absent == {}
Some(v) == {v}
Val(f) == CHOOSE v \in f : TRUE

\* JavaScript truthiness of an optional string property (undefined and "" are falsy)
Truthy(f) == \E v \in f : v # <<>>

\* `${x}` in a template literal: an absent property prints as "undefined"
Interp(f) == IF f = Absent THEN <<"undefined">> ELSE Val(f)

\* Texts the backend may transcribe, messages and errors it may answer
TextA == <<"move", Space, "meeting">>
MsgA == <<"done">>
ErrA == <<"unintelligible">>
ThrownA == <<"cannot", Space, "clone">>

\* A backend reply as the renderer sees it (null: the reply is null/undefined)
Reply(n, t, p, e, m) ==
  [null |-> n, text |-> t, prompt_response |-> p, error |-> e, message |-> m]

NoReply == Reply(TRUE, Absent, Absent, Absent, Absent)

\* What the speech endpoint may answer with HTTP 2xx: { text, prompt_response?, error? }
SpeechData ==
  { Reply(FALSE, Some(TextA), Absent, Absent, Absent),
    Reply(FALSE, Some(TextA), Some(MsgA), Absent, Absent),
    Reply(FALSE, Some(<<>>), Absent, Absent, Absent),
    Reply(FALSE, Absent, Absent, Some(ErrA), Absent),
    Reply(FALSE, Absent, Absent, Absent, Absent) }

\* What the prompt endpoint may answer with HTTP 2xx: { message } or { error }
PromptData ==
  { Reply(FALSE, Absent, Absent, Absent, Some(MsgA)),
    Reply(FALSE, Absent, Absent, Some(ErrA), Absent),
    NoReply }

\* What the user may type into #prompt-input
Typed == { <<Space>>, <<"lunch", Space>> }

\* A calendar list reply: an array of calendars, an { error } object, or null
CalReply(n, e, c) == [null |-> n, error |-> e, calendars |-> c]

NoCalReply == CalReply(TRUE, Absent, <<>>)

CalA == [id |-> "c1", provider |-> "google", name |-> "Work"]

\* What the calendars endpoint may answer with HTTP 2xx
CalendarData ==
  { CalReply(FALSE, Absent, <<>>),
    CalReply(FALSE, Absent, <<CalA>>),
    CalReply(FALSE, Some(ErrA), <<>>) }

\* ------------------------------------------------------------- variables
VARIABLES
  isRecording,        \* VoiceInput.isRecording
  isProcessing,       \* VoiceInput.isProcessing
  mediaRecorder,      \* VoiceInput.mediaRecorder: 0 is null, k the recorder of session k
  audioChunks,        \* VoiceInput.audioChunks: the session each buffered chunk came from
  startPc,            \* per startRecording() call: none, pending, recording, denied, failed
  stream,             \* per session: the MediaStream of getUserMedia: none, live, ended
  recorder,           \* per session: MediaRecorder.state, or none before construction
  stopPending,        \* per session: the recorder's dataavailable/stop task is queued
  btnClasses,         \* classList of #voice-button
  btnText,            \* textContent of .voice-button-text
  vizDisplay,         \* visualizer.style.display
  vizBars,            \* the visualizer holds bars (innerHTML not empty)
  animating,          \* per session: updateVisualization has an animation frame requested
  alerts,             \* number of alert() dialogs shown
  upload,             \* per session: where its processAudio call stands
  blob,               \* per session: the chunks of the Blob built in onstop
  reply,              \* per session: what window.api.processAudio settled with
  tmpFiles,           \* main process: sessions whose temporary recording file exists
  promptInput,        \* promptInput.value
  responseContainer,  \* responseContainer.innerHTML
  activityLog,        \* children of #activity-log, first child first
  promptReq,          \* per sendPrompt() call that reached the backend: where it stands
  promptArg,          \* per sendPrompt() call: its local `prompt`
  promptReply,        \* per sendPrompt() call: what window.api.sendPrompt settled with
  calReq,             \* per loadCalendars() call: where it stands
  calReply,           \* per loadCalendars() call: what window.api.getCalendars settled with
  calendarsList,      \* calendarsList.innerHTML
  isQuitting,         \* main process: isQuitting
  mainWindow,         \* main process: mainWindow is shown, hidden or destroyed
  quitting,           \* main process: app.quit() is closing the windows
  component,          \* React VoiceInput: its state { isRecording, isProcessing }
  mic,                \* React VoiceInput: per recording of ReactMic, where it stands
  micReply,           \* React VoiceInput: per recording, what window.api.processAudio settled with
  transcriptions,     \* React VoiceInput: per recording, the texts onTranscription was called with
  op                  \* the handler that ran last

recVars == <<isRecording, isProcessing, mediaRecorder, audioChunks>>
devVars == <<startPc, stream, recorder, stopPending>>
btnVars == <<btnClasses, btnText, vizDisplay, vizBars, animating>>
upVars == <<upload, blob, reply, tmpFiles>>
domVars == <<promptInput, responseContainer, activityLog>>
prVars == <<promptReq, promptArg, promptReply>>
calVars == <<calReq, calReply, calendarsList>>
voiceVars == <<recVars, devVars, btnVars, alerts, upVars>>
shellVars == <<isQuitting, mainWindow, quitting>>
reactVars == <<component, mic, micReply, transcriptions>>
rendererVars == <<voiceVars, domVars, prVars, calVars>>

vars == <<rendererVars, shellVars, reactVars, op>>

\* ------------------------------------------------------------------ DOM
EmptyState == [cls |-> "empty-state", body |-> <<>>]
Loading(m) == [cls |-> "loading", body |-> m]
AgentResponse(m) == [cls |-> "agent-response", body |-> m]
ErrorP(m) == [cls |-> "error", body |-> m]

\* addActivityItem(description) assigning the new item to activityLog.innerHTML:
\* the earlier entries are lost
addActivityItemReplacing(log, description) ==
  <<[cls |-> "activity-item", body |-> description]>>

\* addActivityItem(description): insertBefore(firstChild), then drop the empty state
addActivityItem(log, description) ==
  SelectSeq(<<[cls |-> "activity-item", body |-> description]>> \o log,
            LAMBDA e : e.cls # "empty-state")

Init ==
  /\ isRecording = FALSE
  /\ isProcessing = FALSE
  /\ mediaRecorder = 0
  /\ audioChunks = <<>>
  /\ startPc = [k \in Sessions |-> "none"]
  /\ stream = [k \in Sessions |-> "none"]
  /\ recorder = [k \in Sessions |-> "none"]
  /\ stopPending = [k \in Sessions |-> FALSE]
  /\ btnClasses = {}
  /\ btnText = "Speak"
  /\ vizDisplay = "none"
  /\ vizBars = FALSE
  /\ animating = [k \in Sessions |-> FALSE]
  /\ alerts = 0
  /\ upload = [k \in Sessions |-> "none"]
  /\ blob = [k \in Sessions |-> <<>>]
  /\ reply = [k \in Sessions |-> NoReply]
  /\ tmpFiles = {}
  /\ promptInput = <<>>
  /\ responseContainer = EmptyState
  /\ activityLog = <<EmptyState>>
  /\ promptReq = [p \in Prompts |-> "none"]
  /\ promptArg = [p \in Prompts |-> <<>>]
  /\ promptReply = [p \in Prompts |-> NoReply]
  /\ calReq = [c \in Loads |-> IF c = 1 THEN "invoked" ELSE "none"]
  /\ calReply = [c \in Loads |-> NoCalReply]
  /\ calendarsList = Loading(<<"Loading calendars...">>)
  /\ isQuitting = FALSE
  /\ mainWindow = "shown"
  /\ quitting = FALSE
  /\ component = [isRecording |-> FALSE, isProcessing |-> FALSE]
  /\ mic = [k \in Sessions |-> "none"]
  /\ micReply = [k \in Sessions |-> NoReply]
  /\ transcriptions = [k \in Sessions |-> <<>>]
  /\ op = "DOMContentLoaded"

\* --------------------------------------------- renderer: VoiceInput class
Started == {k \in Sessions : startPc[k] # "none"}

\* startRecording(), up to its await of getUserMedia: a new microphone request
startRecording ==
  /\ Cardinality(Started) < MaxSessions
  /\ startPc' = [startPc EXCEPT ![Cardinality(Started) + 1] = "pending"]
  /\ UNCHANGED <<recVars, stream, recorder, stopPending, btnVars, alerts, upVars, domVars, prVars, calVars>>

\* stopRecording() with the guard reduced to the null check: an inactive recorder
\* is stopped again
stopRecordingNullCheckOnly ==
  IF mediaRecorder = 0
  THEN UNCHANGED <<recVars, devVars, btnVars, alerts, upVars, domVars, prVars, calVars>>
  ELSE /\ recorder' = [recorder EXCEPT ![mediaRecorder] = "inactive"]
       /\ stopPending' = [stopPending EXCEPT ![mediaRecorder] = TRUE]
       /\ isRecording' = FALSE
       /\ btnClasses' = (btnClasses \ {"recording"}) \cup {"processing"}
       /\ btnText' = "Processing..."
       /\ stream' = [stream EXCEPT ![mediaRecorder] = "ended"]
       /\ UNCHANGED <<isProcessing, mediaRecorder, audioChunks, startPc, vizDisplay,
                      vizBars, animating, alerts, upVars, domVars, prVars, calVars>>

\* stopRecording()
stopRecording ==
  IF mediaRecorder = 0 \/ recorder[mediaRecorder] = "inactive"
  THEN UNCHANGED <<recVars, devVars, btnVars, alerts, upVars, domVars, prVars, calVars>>
  ELSE /\ recorder' = [recorder EXCEPT ![mediaRecorder] = "inactive"]
       /\ stopPending' = [stopPending EXCEPT ![mediaRecorder] = TRUE]
       /\ isRecording' = FALSE
       /\ btnClasses' = (btnClasses \ {"recording"}) \cup {"processing"}
       /\ btnText' = "Processing..."
       /\ stream' = [stream EXCEPT ![mediaRecorder] = "ended"]
       /\ UNCHANGED <<isProcessing, mediaRecorder, audioChunks, startPc, vizDisplay,
                      vizBars, animating, alerts, upVars, domVars, prVars, calVars>>

\* toggleRecording(): the click listener of #voice-button
toggleRecording ==
  /\ op' = "toggleRecording"
  /\ UNCHANGED <<shellVars, reactVars>>
  /\ IF isProcessing
     THEN UNCHANGED <<recVars, devVars, btnVars, alerts, upVars, domVars, prVars, calVars>>
     ELSE IF ~isRecording THEN startRecording ELSE stopRecording

\* startVisualization(analyser): the bars are built only while isRecording
startVisualization(recordingNow, bars) == IF recordingNow THEN TRUE ELSE bars

\* updateVisualization(): an animation frame of the loop session k started. The
\* loop ends when isRecording is false; otherwise it sets the heights of its
\* bars and requests the next frame.
updateVisualization(k) ==
  /\ animating[k]
  /\ op' = "updateVisualization"
  /\ UNCHANGED <<shellVars, reactVars>>
  /\ animating' = IF isRecording THEN animating ELSE [animating EXCEPT ![k] = FALSE]
  /\ UNCHANGED <<recVars, devVars, btnClasses, btnText, vizDisplay, vizBars, alerts, upVars,
                 domVars, prVars, calVars>>

\* startRecording() after getUserMedia resolved. outcome: "ok", or where the rest
\* of the try block throws: "setup" (AudioContext, analyser or MediaRecorder
\* construction), "start" (mediaRecorder.start()).
startRecordingGranted(k, outcome) ==
  /\ startPc[k] = "pending"
  /\ op' = "startRecordingGranted"
  /\ UNCHANGED <<shellVars, reactVars>>
  /\ stream' = [stream EXCEPT ![k] = "live"]
  /\ UNCHANGED <<isProcessing, stopPending, upVars, domVars, prVars, calVars>>
  /\ CASE outcome = "setup" ->
            /\ startPc' = [startPc EXCEPT ![k] = "failed"]
            /\ alerts' = alerts + 1
            /\ UNCHANGED <<isRecording, mediaRecorder, audioChunks, recorder, btnVars>>
       [] outcome = "start" ->
            /\ mediaRecorder' = k
            /\ audioChunks' = <<>>
            /\ recorder' = [recorder EXCEPT ![k] = "inactive"]
            /\ startPc' = [startPc EXCEPT ![k] = "failed"]
            /\ alerts' = alerts + 1
            /\ UNCHANGED <<isRecording, btnVars>>
       [] outcome = "ok" ->
            /\ mediaRecorder' = k
            /\ audioChunks' = <<>>
            /\ recorder' = [recorder EXCEPT ![k] = "recording"]
            /\ isRecording' = TRUE
            /\ btnClasses' = btnClasses \cup {"recording"}
            /\ btnText' = "Listening..."
            /\ vizDisplay' = "flex"
            /\ vizBars' = startVisualization(TRUE, vizBars)
            /\ animating' = [animating EXCEPT ![k] = TRUE]
            /\ startPc' = [startPc EXCEPT ![k] = "recording"]
            /\ UNCHANGED alerts

\* startRecording() marking the session as recording before the permission is
\* known: the catch block then leaves the control in the recording state
startRecordingDeniedLeavesRecording(k) ==
  /\ startPc[k] = "pending"
  /\ op' = "startRecordingDenied"
  /\ UNCHANGED <<shellVars, reactVars>>
  /\ startPc' = [startPc EXCEPT ![k] = "denied"]
  /\ alerts' = alerts + 1
  /\ isRecording' = TRUE
  /\ btnClasses' = btnClasses \cup {"recording"}
  /\ btnText' = "Listening..."
  /\ UNCHANGED <<isProcessing, mediaRecorder, audioChunks, stream, recorder, stopPending,
                 vizDisplay, vizBars, animating, upVars, domVars, prVars, calVars>>

\* startRecording() after getUserMedia rejected: the catch block
startRecordingDenied(k) ==
  /\ startPc[k] = "pending"
  /\ op' = "startRecordingDenied"
  /\ UNCHANGED <<shellVars, reactVars>>
  /\ startPc' = [startPc EXCEPT ![k] = "denied"]
  /\ alerts' = alerts + 1
  /\ UNCHANGED <<recVars, stream, recorder, stopPending, btnVars, upVars, domVars, prVars, calVars>>

\* The task MediaRecorder.stop() queued: dataavailable (ondataavailable pushes
\* the chunk), then stop (onstop builds the Blob and runs processAudio up to
\* its await of window.api.processAudio).
recorderStopped(k) ==
  /\ stopPending[k]
  /\ op' = "recorderStopped"
  /\ UNCHANGED <<shellVars, reactVars>>
  /\ stopPending' = [stopPending EXCEPT ![k] = FALSE]
  /\ audioChunks' = Append(audioChunks, k)
  /\ blob' = [blob EXCEPT ![k] = Append(audioChunks, k)]
  /\ isProcessing' = TRUE
  /\ upload' = [upload EXCEPT ![k] = "invoked"]
  /\ UNCHANGED <<isRecording, mediaRecorder, startPc, stream, recorder, btnVars, alerts,
                 reply, tmpFiles, domVars, prVars, calVars>>

\* ipcRenderer.invoke('process-audio', formData) rejects (the argument cannot be
\* sent, or no handler answers)
processAudioInvokeRejected(k) ==
  /\ upload[k] = "invoked"
  /\ op' = "processAudioInvokeRejected"
  /\ UNCHANGED <<shellVars, reactVars>>
  /\ upload' = [upload EXCEPT ![k] = "rejected"]
  /\ UNCHANGED <<recVars, devVars, btnVars, alerts, blob, reply, tmpFiles, domVars, prVars, calVars>>

\* ------------------------------------------------ main process: handlers
FailedAudio == Reply(FALSE, Absent, Absent, Some(<<"Failed to process audio">>), Absent)

\* ipcMain.handle('process-audio'), up to its await of axios.post. written = FALSE:
\* reading the blob or writing the file throws, and the catch block answers.
handleProcessAudio(k, written) ==
  /\ upload[k] = "invoked"
  /\ op' = "handleProcessAudio"
  /\ UNCHANGED <<shellVars, reactVars>>
  /\ IF written
     THEN /\ tmpFiles' = tmpFiles \cup {k}
          /\ upload' = [upload EXCEPT ![k] = "posted"]
          /\ UNCHANGED reply
     ELSE /\ reply' = [reply EXCEPT ![k] = FailedAudio]
          /\ upload' = [upload EXCEPT ![k] = "settled"]
          /\ UNCHANGED tmpFiles
  /\ UNCHANGED <<recVars, devVars, btnVars, alerts, blob, domVars, prVars, calVars>>

\* ipcMain.handle('process-audio') after axios.post resolved with data
handleProcessAudioPosted(k, data) ==
  /\ upload[k] = "posted"
  /\ op' = "handleProcessAudioPosted"
  /\ UNCHANGED <<shellVars, reactVars>>
  /\ tmpFiles' = tmpFiles \ {k}
  /\ reply' = [reply EXCEPT ![k] = data]
  /\ upload' = [upload EXCEPT ![k] = "settled"]
  /\ UNCHANGED <<recVars, devVars, btnVars, alerts, blob, domVars, prVars, calVars>>

\* ipcMain.handle('process-audio') without its catch block: the rejection of
\* axios.post rejects the invoke of the renderer
handleProcessAudioUncaught(k) ==
  /\ upload[k] = "posted"
  /\ op' = "handleProcessAudioFailed"
  /\ UNCHANGED <<shellVars, reactVars>>
  /\ upload' = [upload EXCEPT ![k] = "rejected"]
  /\ UNCHANGED <<recVars, devVars, btnVars, alerts, blob, reply, tmpFiles, domVars, prVars,
                 calVars>>

\* ipcMain.handle('process-audio') after axios.post rejected: the catch block
handleProcessAudioFailed(k) ==
  /\ upload[k] = "posted"
  /\ op' = "handleProcessAudioFailed"
  /\ UNCHANGED <<shellVars, reactVars>>
  /\ reply' = [reply EXCEPT ![k] = FailedAudio]
  /\ upload' = [upload EXCEPT ![k] = "settled"]
  /\ UNCHANGED <<recVars, devVars, btnVars, alerts, blob, tmpFiles, domVars, prVars, calVars>>

\* ------------------------------------- renderer: processAudio, continued
\* processAudio(), try and catch blocks: promptInput.value afterwards.
\* st is how the call settled, r what it resolved with.
processAudioInput(input, st, r) ==
  IF st = "settled" /\ ~r.null /\ Truthy(r.text) THEN Val(r.text) ELSE input

\* processAudio(), try and catch blocks: responseContainer.innerHTML afterwards
processAudioResponse(shown, st, r) ==
  IF st = "rejected" THEN ErrorP(<<"Error processing audio: ">> \o ThrownA)
  ELSE IF ~r.null /\ Truthy(r.text)
    THEN IF r.prompt_response # Absent
         THEN AgentResponse(Interp(r.prompt_response))
         ELSE shown
  ELSE IF ~r.null /\ Truthy(r.error) THEN ErrorP(<<"Error: ">> \o Val(r.error))
  ELSE shown

\* processAudio() logging the transcription before it looks at prompt_response:
\* an auto-executed transcription is logged as "Transcribed" as well
processAudioLogAlwaysTranscribed(log, st, r) ==
  IF st = "settled" /\ ~r.null /\ Truthy(r.text)
  THEN IF r.prompt_response # Absent
       THEN addActivityItem(
              addActivityItem(
                addActivityItem(log, <<"Transcribed: \"">> \o Val(r.text) \o <<"\"">>),
                <<"Voice prompt: \"">> \o Val(r.text) \o <<"\"">>),
              <<"Agent: \"">> \o Interp(r.prompt_response) \o <<"\"">>)
       ELSE addActivityItem(log, <<"Transcribed: \"">> \o Val(r.text) \o <<"\"">>)
  ELSE log

\* processAudio(), try and catch blocks: the activity log afterwards
processAudioLog(log, st, r) ==
  IF st = "settled" /\ ~r.null /\ Truthy(r.text)
  THEN IF r.prompt_response # Absent
       THEN addActivityItem(
              addActivityItem(log, <<"Voice prompt: \"">> \o Val(r.text) \o <<"\"">>),
              <<"Agent: \"">> \o Interp(r.prompt_response) \o <<"\"">>)
       ELSE addActivityItem(log, <<"Transcribed: \"">> \o Val(r.text) \o <<"\"">>)
  ELSE log

\* processAudio() calling window.api.processAudio again when the call threw
processAudioSettledRetries(k) ==
  /\ upload[k] \in {"settled", "rejected"}
  /\ op' = "processAudioSettled"
  /\ UNCHANGED <<shellVars, reactVars>>
  /\ promptInput' = processAudioInput(promptInput, upload[k], reply[k])
  /\ responseContainer' = processAudioResponse(responseContainer, upload[k], reply[k])
  /\ activityLog' = processAudioLog(activityLog, upload[k], reply[k])
  /\ isProcessing' = (upload[k] = "rejected")
  /\ btnClasses' = IF upload[k] = "rejected" THEN btnClasses ELSE btnClasses \ {"processing"}
  /\ btnText' = IF upload[k] = "rejected" THEN btnText ELSE "Speak"
  /\ vizDisplay' = IF upload[k] = "rejected" THEN vizDisplay ELSE "none"
  /\ vizBars' = IF upload[k] = "rejected" THEN vizBars ELSE FALSE
  /\ upload' = [upload EXCEPT ![k] = IF upload[k] = "rejected" THEN "invoked" ELSE "done"]
  /\ reply' = [reply EXCEPT ![k] = NoReply]
  /\ UNCHANGED <<isRecording, mediaRecorder, audioChunks, devVars, animating, alerts, blob,
                 tmpFiles, prVars, calVars>>

\* processAudio() after window.api.processAudio settled: the rest of the try
\* block or the catch block, then the finally block
processAudioSettled(k) ==
  /\ upload[k] \in {"settled", "rejected"}
  /\ op' = "processAudioSettled"
  /\ UNCHANGED <<shellVars, reactVars>>
  /\ promptInput' = processAudioInput(promptInput, upload[k], reply[k])
  /\ responseContainer' = processAudioResponse(responseContainer, upload[k], reply[k])
  /\ activityLog' = processAudioLog(activityLog, upload[k], reply[k])
  /\ isProcessing' = FALSE
  /\ btnClasses' = btnClasses \ {"processing"}
  /\ btnText' = "Speak"
  /\ vizDisplay' = "none"
  /\ vizBars' = FALSE
  /\ upload' = [upload EXCEPT ![k] = "done"]
  /\ reply' = [reply EXCEPT ![k] = NoReply]
  /\ UNCHANGED <<isRecording, mediaRecorder, audioChunks, devVars, animating, alerts, blob,
                 tmpFiles, prVars, calVars>>

\* ----------------------------------------------- renderer: prompt input
\* The user edits #prompt-input
typePrompt(s) ==
  /\ promptInput # s
  /\ op' = "typePrompt"
  /\ UNCHANGED <<shellVars, reactVars>>
  /\ promptInput' = s
  /\ UNCHANGED <<voiceVars, responseContainer, activityLog, prVars, calVars>>

Sent == {p \in Prompts : promptReq[p] # "none"}

\* sendPrompt() testing promptInput.value without trim(): white space is sent
sendPromptUntrimmed ==
  /\ op' = "sendPrompt"
  /\ UNCHANGED <<shellVars, reactVars>>
  /\ IF promptInput = <<>>
     THEN UNCHANGED <<voiceVars, domVars, prVars, calVars>>
     ELSE /\ Cardinality(Sent) < MaxPrompts
          /\ responseContainer' = Loading(<<"Processing your request...">>)
          /\ promptReq' = [promptReq EXCEPT ![Cardinality(Sent) + 1] = "invoked"]
          /\ promptArg' = [promptArg EXCEPT ![Cardinality(Sent) + 1] = promptInput]
          /\ UNCHANGED <<voiceVars, promptInput, activityLog, promptReply, calVars>>

\* sendPrompt(), up to its await of window.api.sendPrompt (Send click, or Enter)
sendPrompt ==
  /\ op' = "sendPrompt"
  /\ UNCHANGED <<shellVars, reactVars>>
  /\ IF trim(promptInput) = <<>>
     THEN UNCHANGED <<voiceVars, domVars, prVars, calVars>>
     ELSE /\ Cardinality(Sent) < MaxPrompts
          /\ responseContainer' = Loading(<<"Processing your request...">>)
          /\ promptReq' = [promptReq EXCEPT ![Cardinality(Sent) + 1] = "invoked"]
          /\ promptArg' = [promptArg EXCEPT ![Cardinality(Sent) + 1] = trim(promptInput)]
          /\ UNCHANGED <<voiceVars, promptInput, activityLog, promptReply, calVars>>

\* ipcRenderer.invoke('send-prompt', prompt) rejects
sendPromptInvokeRejected(p) ==
  /\ promptReq[p] = "invoked"
  /\ op' = "sendPromptInvokeRejected"
  /\ UNCHANGED <<shellVars, reactVars>>
  /\ promptReq' = [promptReq EXCEPT ![p] = "rejected"]
  /\ UNCHANGED <<voiceVars, domVars, promptArg, promptReply, calVars>>

FailedPrompt == Reply(FALSE, Absent, Absent, Some(<<"Failed to process prompt">>), Absent)

\* ipcMain.handle('send-prompt'): axios.post resolved with data (ok), or rejected
\* and the catch block answers
handleSendPrompt(p, ok, data) ==
  /\ promptReq[p] = "invoked"
  /\ op' = "handleSendPrompt"
  /\ UNCHANGED <<shellVars, reactVars>>
  /\ promptReply' = [promptReply EXCEPT ![p] = IF ok THEN data ELSE FailedPrompt]
  /\ promptReq' = [promptReq EXCEPT ![p] = "settled"]
  /\ UNCHANGED <<voiceVars, domVars, promptArg, calVars>>

TypeErrorNull == <<"Cannot read properties of null">>

\* sendPrompt() clearing the input before it looks at the response: a failed
\* submission loses the draft
sendPromptSettledClearsInput(p) ==
  /\ promptReq[p] \in {"settled", "rejected"}
  /\ op' = "sendPromptSettled"
  /\ UNCHANGED <<shellVars, reactVars>>
  /\ promptInput' = <<>>
  /\ LET r == promptReply[p] IN
     IF promptReq[p] = "rejected"
     THEN /\ responseContainer' = ErrorP(<<"Error: ">> \o ThrownA)
          /\ UNCHANGED activityLog
     ELSE IF r.null
     THEN /\ responseContainer' = ErrorP(<<"Error: ">> \o TypeErrorNull)
          /\ UNCHANGED activityLog
     ELSE IF Truthy(r.error)
     THEN /\ responseContainer' = ErrorP(<<"Error: ">> \o Val(r.error))
          /\ UNCHANGED activityLog
     ELSE /\ responseContainer' = AgentResponse(Interp(r.message))
          /\ activityLog' =
               addActivityItem(
                 addActivityItem(activityLog, <<"Prompt: \"">> \o promptArg[p] \o <<"\"">>),
                 <<"Agent: \"">> \o Interp(r.message) \o <<"\"">>)
  /\ promptReq' = [promptReq EXCEPT ![p] = "done"]
  /\ promptReply' = [promptReply EXCEPT ![p] = NoReply]
  /\ UNCHANGED <<voiceVars, promptArg, calVars>>

\* sendPrompt() logging the prompt before it looks at the response: a failed
\* submission leaves an activity entry
sendPromptSettledLogsFirst(p) ==
  /\ promptReq[p] \in {"settled", "rejected"}
  /\ op' = "sendPromptSettled"
  /\ UNCHANGED <<shellVars, reactVars>>
  /\ LET r == promptReply[p]
         logged == addActivityItem(activityLog, <<"Prompt: \"">> \o promptArg[p] \o <<"\"">>)
     IN
     IF promptReq[p] = "rejected"
     THEN /\ responseContainer' = ErrorP(<<"Error: ">> \o ThrownA)
          /\ activityLog' = logged
          /\ UNCHANGED promptInput
     ELSE IF r.null
     THEN /\ responseContainer' = ErrorP(<<"Error: ">> \o TypeErrorNull)
          /\ activityLog' = logged
          /\ UNCHANGED promptInput
     ELSE IF Truthy(r.error)
     THEN /\ responseContainer' = ErrorP(<<"Error: ">> \o Val(r.error))
          /\ activityLog' = logged
          /\ UNCHANGED promptInput
     ELSE /\ responseContainer' = AgentResponse(Interp(r.message))
          /\ activityLog' = addActivityItem(logged, <<"Agent: \"">> \o Interp(r.message) \o <<"\"">>)
          /\ promptInput' = <<>>
  /\ promptReq' = [promptReq EXCEPT ![p] = "done"]
  /\ promptReply' = [promptReply EXCEPT ![p] = NoReply]
  /\ UNCHANGED <<voiceVars, promptArg, calVars>>

\* sendPrompt() after window.api.sendPrompt settled
sendPromptSettled(p) ==
  /\ promptReq[p] \in {"settled", "rejected"}
  /\ op' = "sendPromptSettled"
  /\ UNCHANGED <<shellVars, reactVars>>
  /\ LET r == promptReply[p] IN
     IF promptReq[p] = "rejected"
     THEN /\ responseContainer' = ErrorP(<<"Error: ">> \o ThrownA)
          /\ UNCHANGED <<promptInput, activityLog>>
     ELSE IF r.null
     THEN /\ responseContainer' = ErrorP(<<"Error: ">> \o TypeErrorNull)
          /\ UNCHANGED <<promptInput, activityLog>>
     ELSE IF Truthy(r.error)
     THEN /\ responseContainer' = ErrorP(<<"Error: ">> \o Val(r.error))
          /\ UNCHANGED <<promptInput, activityLog>>
     ELSE /\ responseContainer' = AgentResponse(Interp(r.message))
          /\ activityLog' =
               addActivityItem(
                 addActivityItem(activityLog, <<"Prompt: \"">> \o promptArg[p] \o <<"\"">>),
                 <<"Agent: \"">> \o Interp(r.message) \o <<"\"">>)
          /\ promptInput' = <<>>
  /\ promptReq' = [promptReq EXCEPT ![p] = "done"]
  /\ promptReply' = [promptReply EXCEPT ![p] = NoReply]
  /\ UNCHANGED <<voiceVars, promptArg, calVars>>

\* -------------------------------------------- renderer: connected calendars
Loaded == {c \in Loads : calReq[c] # "none"}

\* loadCalendars(), up to its await of window.api.getCalendars
loadCalendars ==
  /\ Cardinality(Loaded) < MaxLoads
  /\ calReq' = [calReq EXCEPT ![Cardinality(Loaded) + 1] = "invoked"]

\* disconnectCalendar(calendarId), confirmed: the click listener of a Disconnect
\* button of the rendered list
disconnectCalendar ==
  /\ calendarsList.cls = "calendar-items"
  /\ op' = "disconnectCalendar"
  /\ UNCHANGED <<shellVars, reactVars>>
  /\ activityLog' = addActivityItem(activityLog, <<"Calendar disconnected">>)
  /\ loadCalendars
  /\ UNCHANGED <<voiceVars, promptInput, responseContainer, prVars, calReply, calendarsList>>

\* ipcRenderer.invoke('get-calendars') rejects
getCalendarsInvokeRejected(c) ==
  /\ calReq[c] = "invoked"
  /\ op' = "getCalendarsInvokeRejected"
  /\ UNCHANGED <<shellVars, reactVars>>
  /\ calReq' = [calReq EXCEPT ![c] = "rejected"]
  /\ UNCHANGED <<voiceVars, domVars, prVars, calReply, calendarsList>>

FailedCalendars == CalReply(FALSE, Some(<<"Failed to fetch calendars">>), <<>>)

\* ipcMain.handle('get-calendars'): axios.get resolved with data (ok), or rejected
\* and the catch block answers
handleGetCalendars(c, ok, data) ==
  /\ calReq[c] = "invoked"
  /\ op' = "handleGetCalendars"
  /\ UNCHANGED <<shellVars, reactVars>>
  /\ calReply' = [calReply EXCEPT ![c] = IF ok THEN data ELSE FailedCalendars]
  /\ calReq' = [calReq EXCEPT ![c] = "settled"]
  /\ UNCHANGED <<voiceVars, domVars, prVars, calendarsList>>

\* renderCalendarsList(calendars)
renderCalendarsList(calendars) == [cls |-> "calendar-items", body |-> calendars]

\* loadCalendars() after window.api.getCalendars settled
loadCalendarsSettled(c) ==
  /\ calReq[c] \in {"settled", "rejected"}
  /\ op' = "loadCalendarsSettled"
  /\ UNCHANGED <<shellVars, reactVars>>
  /\ LET r == calReply[c] IN
     calendarsList' =
       IF calReq[c] = "rejected" THEN ErrorP(<<"Error loading calendars: ">> \o ThrownA)
       ELSE IF r.null THEN ErrorP(<<"Error loading calendars: ">> \o TypeErrorNull)
       ELSE IF Truthy(r.error) THEN ErrorP(<<"Error: ">> \o Val(r.error))
       ELSE IF Len(r.calendars) = 0
         THEN [cls |-> "empty-state", body |-> <<"No calendars connected.">>]
       ELSE renderCalendarsList(r.calendars)
  /\ calReq' = [calReq EXCEPT ![c] = "done"]
  /\ calReply' = [calReply EXCEPT ![c] = NoCalReply]
  /\ UNCHANGED <<voiceVars, domVars, prVars>>

\* ------------------------------------------- main process: window and tray
\* mainWindow.on('close') without the isQuitting test: every close request
\* closes the window
windowCloseUnprevented ==
  /\ mainWindow # "destroyed"
  /\ mainWindow = "shown" \/ quitting
  /\ op' = "windowClose"
  /\ mainWindow' = "destroyed"
  /\ UNCHANGED <<isQuitting, quitting, rendererVars, reactVars>>

\* mainWindow.on('close'): a close request, from the title bar of the shown
\* window or from app.quit() closing the windows. Prevented while isQuitting is
\* false, and the window is hidden instead.
windowClose ==
  /\ mainWindow # "destroyed"
  /\ mainWindow = "shown" \/ quitting
  /\ op' = "windowClose"
  /\ mainWindow' = IF ~isQuitting THEN "hidden" ELSE "destroyed"
  /\ UNCHANGED <<isQuitting, quitting, rendererVars, reactVars>>

\* tray.on('click'): mainWindow.isVisible() ? mainWindow.hide() : mainWindow.show()
trayClick ==
  /\ mainWindow # "destroyed"
  /\ op' = "trayClick"
  /\ mainWindow' = IF mainWindow = "shown" THEN "hidden" ELSE "shown"
  /\ UNCHANGED <<isQuitting, quitting, rendererVars, reactVars>>

\* The tray item 'Open Calendar AI Agent': mainWindow.show()
trayOpen ==
  /\ mainWindow # "destroyed"
  /\ op' = "trayOpen"
  /\ mainWindow' = "shown"
  /\ UNCHANGED <<isQuitting, quitting, rendererVars, reactVars>>

\* The tray item 'Quit': isQuitting = true; app.quit()
trayQuit ==
  /\ op' = "trayQuit"
  /\ isQuitting' = TRUE
  /\ quitting' = TRUE
  /\ UNCHANGED <<mainWindow, rendererVars, reactVars>>

\* app.on('before-quit'): a quit requested by the system or the application menu
beforeQuit ==
  /\ ~quitting
  /\ op' = "beforeQuit"
  /\ isQuitting' = TRUE
  /\ quitting' = TRUE
  /\ UNCHANGED <<mainWindow, rendererVars, reactVars>>

\* app.on('window-all-closed'): app.quit() unless the platform is darwin
windowAllClosed(darwin) ==
  /\ mainWindow = "destroyed"
  /\ op' = "windowAllClosed"
  /\ isQuitting' = (isQuitting \/ ~darwin)
  /\ quitting' = (quitting \/ ~darwin)
  /\ UNCHANGED <<mainWindow, rendererVars, reactVars>>

\* ------------------------------------- React component: src/VoiceInput.js
Recorded == {k \in Sessions : mic[k] # "none"}

\* toggleRecording of the component: the click listener of its button. ReactMic
\* records while the record prop (isRecording) is true and stops when it turns
\* false.
componentToggleRecording ==
  /\ op' = "componentToggleRecording"
  /\ IF component.isProcessing
     THEN UNCHANGED <<component, mic>>
     ELSE IF ~component.isRecording
     THEN /\ Cardinality(Recorded) < MaxSessions
          /\ component' = [component EXCEPT !.isRecording = TRUE]
          /\ mic' = [mic EXCEPT ![Cardinality(Recorded) + 1] = "recording"]
     ELSE /\ component' = [component EXCEPT !.isRecording = FALSE]
          /\ mic' = [k \in Sessions |-> IF mic[k] = "recording" THEN "stopping" ELSE mic[k]]
  /\ UNCHANGED <<micReply, transcriptions, rendererVars, shellVars>>

\* onStop(recordedBlob), and processAudio up to its await of window.api.processAudio
componentOnStop(k) ==
  /\ mic[k] = "stopping"
  /\ op' = "componentOnStop"
  /\ component' = [component EXCEPT !.isProcessing = TRUE]
  /\ mic' = [mic EXCEPT ![k] = "invoked"]
  /\ UNCHANGED <<micReply, transcriptions, rendererVars, shellVars>>

\* window.api.processAudio of the component settles: the invoke rejects
\* (answered = FALSE), or the 'process-audio' handler resolves it with data
componentAudioAnswered(k, answered, data) ==
  /\ mic[k] = "invoked"
  /\ op' = "componentAudioAnswered"
  /\ mic' = [mic EXCEPT ![k] = IF answered THEN "settled" ELSE "rejected"]
  /\ micReply' = [micReply EXCEPT ![k] = IF answered THEN data ELSE NoReply]
  /\ UNCHANGED <<component, transcriptions, rendererVars, shellVars>>

\* onStop without its finally block: isProcessing is reset only when
\* processAudio returned
componentProcessAudioSettledNoFinally(k) ==
  /\ mic[k] \in {"settled", "rejected"}
  /\ op' = "componentProcessAudioSettled"
  /\ LET r == micReply[k] IN
     transcriptions' =
       IF mic[k] = "settled" /\ ~r.null /\ Truthy(r.text)
       THEN [transcriptions EXCEPT ![k] = Append(@, Val(r.text))]
       ELSE transcriptions
  /\ component' = IF mic[k] = "rejected" THEN component
                  ELSE [component EXCEPT !.isProcessing = FALSE]
  /\ mic' = [mic EXCEPT ![k] = "done"]
  /\ micReply' = [micReply EXCEPT ![k] = NoReply]
  /\ UNCHANGED <<rendererVars, shellVars>>

\* processAudio of the component after its await, then the catch and finally
\* blocks of onStop
componentProcessAudioSettled(k) ==
  /\ mic[k] \in {"settled", "rejected"}
  /\ op' = "componentProcessAudioSettled"
  /\ LET r == micReply[k] IN
     transcriptions' =
       IF mic[k] = "settled" /\ ~r.null /\ Truthy(r.text)
       THEN [transcriptions EXCEPT ![k] = Append(@, Val(r.text))]
       ELSE transcriptions
  /\ component' = [component EXCEPT !.isProcessing = FALSE]
  /\ mic' = [mic EXCEPT ![k] = "done"]
  /\ micReply' = [micReply EXCEPT ![k] = NoReply]
  /\ UNCHANGED <<rendererVars, shellVars>>

\* ---------------------------------------------------------- specification
\* Tasks of the voice pipeline that are no user gesture, the animation frames
\* apart: a frame changes nothing but its own loop, which no other task reads
VoiceEvents ==
  \/ \E k \in Sessions, o \in {"ok", "setup", "start"} : startRecordingGranted(k, o)
  \/ \E k \in Sessions : startRecordingDenied(k)
  \/ \E k \in Sessions : recorderStopped(k)
  \/ \E k \in Sessions : processAudioInvokeRejected(k)
  \/ \E k \in Sessions, w \in BOOLEAN : handleProcessAudio(k, w)
  \/ \E k \in Sessions, d \in SpeechData : handleProcessAudioPosted(k, d)
  \/ \E k \in Sessions : handleProcessAudioFailed(k)
  \/ \E k \in Sessions : processAudioSettled(k)

PromptEvents ==
  \/ \E p \in Prompts : sendPromptInvokeRejected(p)
  \/ \E p \in Prompts, ok \in BOOLEAN, d \in PromptData : handleSendPrompt(p, ok, d)
  \/ \E p \in Prompts : sendPromptSettled(p)

CalendarEvents ==
  \/ \E c \in Loads : getCalendarsInvokeRejected(c)
  \/ \E c \in Loads, ok \in BOOLEAN, d \in CalendarData : handleGetCalendars(c, ok, d)
  \/ \E c \in Loads : loadCalendarsSettled(c)

Calls == Cardinality(Started) + Cardinality(Sent) + Cardinality(Loaded)

\* The application: the three concerns side by side, the run cut after MaxCalls
\* gestures that lead to a backend call
Next ==
  \/ toggleRecording /\ Calls' <= MaxCalls
  \/ sendPrompt /\ Calls' <= MaxCalls
  \/ disconnectCalendar /\ Calls' <= MaxCalls
  \/ \E s \in Typed : typePrompt(s)
  \/ VoiceEvents
  \/ \E k \in Sessions : updateVisualization(k)
  \/ PromptEvents
  \/ CalendarEvents

Spec == Init /\ [][Next]_vars

\* The voice pipeline alone, with up to MaxSessions recordings
NextVoice == toggleRecording \/ VoiceEvents

SpecVoice == Init /\ [][NextVoice]_vars

\* stopRecording() called on the VoiceInput object directly, not through the button
stopRecordingCall ==
  /\ op' = "stopRecording"
  /\ UNCHANGED <<shellVars, reactVars>>
  /\ stopRecording

NextApi == NextVoice \/ stopRecordingCall

SpecApi == Init /\ [][NextApi]_vars

\* The voice pipeline with the animation frames of the visualizer
NextViz ==
  \/ NextVoice
  \/ \E k \in Sessions : updateVisualization(k)

SpecViz == Init /\ [][NextViz]_vars

\* The main process: the window and the tray, with the calendar list of the
\* window it hosts (a Disconnect button needs the window on the screen)
NextShell ==
  \/ windowClose
  \/ trayClick
  \/ trayOpen
  \/ trayQuit
  \/ beforeQuit
  \/ \E darwin \in BOOLEAN : windowAllClosed(darwin)
  \/ disconnectCalendar /\ mainWindow = "shown"
  \/ CalendarEvents

SpecShell == Init /\ [][NextShell]_vars

\* The React component on its own
NextComponent ==
  \/ componentToggleRecording
  \/ \E k \in Sessions : componentOnStop(k)
  \/ \E k \in Sessions, a \in BOOLEAN, d \in SpeechData \cup {FailedAudio} :
       componentAudioAnswered(k, a, d)
  \/ \E k \in Sessions : componentProcessAudioSettled(k)

SpecComponent == Init /\ [][NextComponent]_vars

\* ReactMic reports the stop it was asked for, the call is answered or rejected,
\* and a settled call resumes processAudio. Nothing makes the user click.
ComponentFairness ==
  \A k \in Sessions :
    /\ WF_vars(componentOnStop(k))
    /\ WF_vars(\E a \in BOOLEAN, d \in SpeechData \cup {FailedAudio} :
                  componentAudioAnswered(k, a, d))
    /\ WF_vars(componentProcessAudioSettled(k))

FairComponent == SpecComponent /\ ComponentFairness

Gestures == Cardinality(Started) + Cardinality(Sent)

\* Capture and prompt submission side by side, the run cut after MaxCalls
\* recordings and submissions
NextOverlap ==
  \/ toggleRecording /\ Gestures' <= MaxCalls
  \/ sendPrompt /\ Gestures' <= MaxCalls
  \/ \E s \in Typed : typePrompt(s)
  \/ VoiceEvents
  \/ PromptEvents

SpecOverlap == Init /\ [][NextOverlap]_vars

\* The prompt field alone: typing, Send clicks and Enter, up to MaxPrompts calls
NextPrompt ==
  \/ sendPrompt
  \/ \E s \in Typed : typePrompt(s)
  \/ PromptEvents

SpecPrompt == Init /\ [][NextPrompt]_vars

\* A pending 'send-prompt' call is answered or rejected, and a settled call
\* resumes sendPrompt(). Nothing makes the user type or click.
PromptFairness ==
  \A p \in Prompts :
    /\ WF_vars(sendPromptInvokeRejected(p)
                 \/ \E ok \in BOOLEAN, d \in PromptData : handleSendPrompt(p, ok, d))
    /\ WF_vars(sendPromptSettled(p))

FairPrompt == SpecPrompt /\ PromptFairness

\* What the event loop and the backend guarantee: a queued recorder task runs, a
\* pending IPC call is answered or rejected, a settled call resumes its caller.
\* Nothing makes the user click, nor the permission request end.
VoiceFairness ==
  \A k \in Sessions :
    /\ WF_vars(recorderStopped(k))
    /\ WF_vars(processAudioInvokeRejected(k) \/ \E w \in BOOLEAN : handleProcessAudio(k, w))
    /\ WF_vars(handleProcessAudioFailed(k) \/ \E d \in SpeechData : handleProcessAudioPosted(k, d))
    /\ WF_vars(processAudioSettled(k))

FairVoice == SpecVoice /\ VoiceFairness

\* The same guarantees with the animation frames; nothing makes a frame come
\* before another task.
FairViz == SpecViz /\ VoiceFairness

\* ------------------------------------------------------------ properties
\* From an accepted stop() until the upload has finished
Processing ==
  \E k \in Sessions : stopPending[k] \/ upload[k] \in {"invoked", "posted", "settled", "rejected"}

\* The capture control as the user sees it when no session is under way
ControlIdle ==
  /\ ~isRecording
  /\ ~isProcessing
  /\ btnClasses = {}
  /\ btnText = "Speak"

\* C1: at most one Recording Session is active: never two MediaRecorders
\* recording, never two live microphone streams.
C1_OneSessionActive ==
  /\ Cardinality({k \in Sessions : recorder[k] = "recording"}) <= 1
  /\ Cardinality({k \in Sessions : stream[k] = "live"}) <= 1

\* C2: a start gesture (a click while the button is no stop button) made while
\* the session is recording or processing leaves isRecording, isProcessing, the
\* current MediaRecorder and the buffered chunks unchanged and issues no new
\* microphone request.
C2_StartRejectedWhileBusy ==
  [][(op' = "toggleRecording" /\ ~isRecording /\ Processing)
       => UNCHANGED <<isRecording, isProcessing, mediaRecorder, audioChunks, startPc>>]_vars

\* C3: stop() while the session is idle or already processing is a no-op: a
\* stopRecording() call while nothing is being recorded, and a click while
\* isProcessing, change nothing (no Blob, no upload, the flags and the button as
\* they were).
C3_StopIsNoOp ==
  [][((op' = "stopRecording" /\ ~isRecording) \/ (op' = "toggleRecording" /\ isProcessing))
       => UNCHANGED <<voiceVars, domVars, prVars, calVars>>]_vars

\* C3, its case: stopRecording() was called on an idle control whose last
\* recorder is inactive, and nothing is under way.
C3_StopCalledWhileIdle ==
  /\ op = "stopRecording"
  /\ ControlIdle
  /\ mediaRecorder # 0
  /\ recorder[mediaRecorder] = "inactive"
  /\ ~Processing

\* C4: a refused microphone permission is reported (one alert) and changes
\* nothing else: the flags, the current recorder, the chunks, the button and the
\* uploads stay as they were; the refused session never gets a stream, a
\* recorder, a chunk or an upload; and a click on the idle control afterwards
\* issues a new microphone request.
C4_DeniedStaysIdle ==
  /\ [](\A k \in Sessions :
          startPc[k] = "denied" =>
            /\ stream[k] = "none"
            /\ recorder[k] = "none"
            /\ upload[k] = "none"
            /\ ~stopPending[k]
            /\ mediaRecorder # k
            /\ \A i \in 1..Len(audioChunks) : audioChunks[i] # k)
  /\ [][(\E k \in Sessions : startPc[k] = "pending" /\ startPc'[k] = "denied")
          => /\ alerts' = alerts + 1
             /\ UNCHANGED <<recVars, stream, recorder, stopPending, btnVars, upVars>>]_vars
  /\ [][(/\ op' = "toggleRecording"
         /\ \E k \in Sessions : startPc[k] = "denied"
         /\ ~isRecording
         /\ ~isProcessing)
          => Cardinality(Started') = Cardinality(Started) + 1]_vars

\* C4, its case: permission for the first start was refused, the control is idle,
\* and the click that followed opened a second request.
C4_DeniedThenStartedAgain ==
  /\ op = "toggleRecording"
  /\ startPc[1] = "denied"
  /\ startPc[2] = "pending"
  /\ alerts = 1
  /\ ControlIdle

\* C5: whenever the session is not recording, no acquired microphone stream is
\* still live.
C5_MicReleased ==
  ~isRecording => \A k \in Sessions : stream[k] # "live"

\* C6: after an accepted stop() the capture pipeline eventually returns to idle
\* (isRecording = false, isProcessing = false, the button shows 'Speak'), given
\* that the recorder's stop event fires and the backend call completes.
C6_ReturnsToIdle ==
  \A k \in Sessions :
    stopPending[k] ~> (~isRecording /\ ~isProcessing /\ btnText = "Speak")

Entry(description) == [cls |-> "activity-item", body |-> description]

\* The activity entries of the log, without the empty-state placeholder
Items(log) == SelectSeq(log, LAMBDA e : e.cls = "activity-item")

\* The step in which processAudio() of session k resumes with a resolved call
Resolved(k) == upload[k] = "settled" /\ upload'[k] = "done"

HasText(r) == ~r.null /\ Truthy(r.text)
HasError(r) == ~r.null /\ Truthy(r.error)

\* C7: a transcription that resolves with a text and a prompt_response appends
\* exactly two activity entries, the transcribed text first and the agent
\* message second (the log shows the newest first), shows the agent message in
\* the response region, and sends no prompt.
C7_PromptResponseLogged ==
  [][\A k \in Sessions :
       (Resolved(k) /\ HasText(reply[k]) /\ reply[k].prompt_response # Absent)
         => /\ activityLog' =
                 << Entry(<<"Agent: \"">> \o Val(reply[k].prompt_response) \o <<"\"">>),
                    Entry(<<"Voice prompt: \"">> \o Val(reply[k].text) \o <<"\"">>) >>
                 \o Items(activityLog)
            /\ responseContainer' = AgentResponse(Val(reply[k].prompt_response))
            /\ UNCHANGED prVars]_vars

\* C7, its case: an auto-executed transcription has just been rendered.
C7_AutoExecuted ==
  /\ op = "processAudioSettled"
  /\ responseContainer = AgentResponse(MsgA)
  /\ Len(activityLog) >= 2
  /\ activityLog[1] = Entry(<<"Agent: \"">> \o MsgA \o <<"\"">>)
  /\ activityLog[2] = Entry(<<"Voice prompt: \"">> \o TextA \o <<"\"">>)

\* C8: a transcription that resolves with a text only appends exactly one
\* activity entry holding the text, sets the prompt input to the text, leaves
\* the response region alone, sends no prompt, and returns the recording
\* control to idle.
C8_TextOnlyTranscription ==
  [][\A k \in Sessions :
       (Resolved(k) /\ HasText(reply[k]) /\ reply[k].prompt_response = Absent)
         => /\ activityLog' =
                 <<Entry(<<"Transcribed: \"">> \o Val(reply[k].text) \o <<"\"">>)>>
                 \o Items(activityLog)
            /\ promptInput' = Val(reply[k].text)
            /\ UNCHANGED <<responseContainer, prVars>>
            /\ ControlIdle']_vars

\* C9: a transcription that resolves with an error field and no text shows an
\* error holding that string in the response region, adds no activity entry,
\* leaves the prompt input alone, and returns the recording control to idle.
C9_ErrorFieldShown ==
  [][\A k \in Sessions :
       (Resolved(k) /\ ~HasText(reply[k]) /\ HasError(reply[k]))
         => /\ responseContainer' = ErrorP(<<"Error: ">> \o Val(reply[k].error))
            /\ UNCHANGED <<activityLog, promptInput>>
            /\ ControlIdle']_vars

\* The tasks of the main process
MainStep ==
  op' \in {"handleProcessAudio", "handleProcessAudioPosted", "handleProcessAudioFailed",
           "handleSendPrompt", "handleGetCalendars"}

\* C10: the handlers of 'process-audio', 'send-prompt' and 'get-calendars' never
\* reject: each call they finish is resolved with the backend's data or with
\* their { error } object, which a failed backend call always yields; and the
\* renderer shows a resolved { error } as an error message and adds no activity
\* entry.
C10_FailuresRendered ==
  /\ [][MainStep =>
          /\ \A k \in Sessions :
               /\ upload'[k] = "rejected" => upload[k] = "rejected"
               /\ (upload[k] # "settled" /\ upload'[k] = "settled")
                    => reply'[k] \in SpeechData \cup {FailedAudio}
               /\ (op' = "handleProcessAudioFailed" /\ upload[k] # upload'[k])
                    => (upload'[k] = "settled" /\ reply'[k] = FailedAudio)
          /\ \A p \in Prompts :
               /\ promptReq'[p] = "rejected" => promptReq[p] = "rejected"
               /\ (promptReq[p] # "settled" /\ promptReq'[p] = "settled")
                    => promptReply'[p] \in PromptData \cup {FailedPrompt}
          /\ \A c \in Loads :
               /\ calReq'[c] = "rejected" => calReq[c] = "rejected"
               /\ (calReq[c] # "settled" /\ calReq'[c] = "settled")
                    => calReply'[c] \in CalendarData \cup {FailedCalendars}]_vars
  /\ [][\A k \in Sessions :
          (Resolved(k) /\ ~HasText(reply[k]) /\ HasError(reply[k]))
            => /\ responseContainer' = ErrorP(<<"Error: ">> \o Val(reply[k].error))
               /\ UNCHANGED activityLog]_vars
  /\ [][\A p \in Prompts :
          (promptReq[p] = "settled" /\ promptReq'[p] = "done" /\ HasError(promptReply[p]))
            => /\ responseContainer' = ErrorP(<<"Error: ">> \o Val(promptReply[p].error))
               /\ UNCHANGED activityLog]_vars
  /\ [][\A c \in Loads :
          (calReq[c] = "settled" /\ calReq'[c] = "done" /\ HasError(calReply[c]))
            => /\ calendarsList' = ErrorP(<<"Error: ">> \o Val(calReply[c].error))
               /\ UNCHANGED activityLog]_vars

\* C10, its case: the calendars call and the upload both failed at the backend,
\* and both failures are on the screen with nothing logged.
C10_BackendDownShown ==
  /\ calendarsList = ErrorP(<<"Error: ", "Failed to fetch calendars">>)
  /\ responseContainer = ErrorP(<<"Error: ", "Failed to process audio">>)
  /\ Items(activityLog) = <<>>
  /\ tmpFiles # {}

\* --------------------------------------------------- properties: prompts
\* The step in which sendPrompt() of call p resumes after its await
PromptSettles(p) == promptReq[p] \in {"settled", "rejected"} /\ promptReq'[p] = "done"

\* The call failed: it threw, or resolved with null or with an error field
PromptFailed(p) ==
  promptReq[p] = "rejected" \/ promptReply[p].null \/ Truthy(promptReply[p].error)

\* A task of sendPrompt() or of its backend call
PromptStep ==
  op' \in {"sendPrompt", "sendPromptInvokeRejected", "handleSendPrompt", "sendPromptSettled"}

\* C11: sendPrompt() on an empty or white-space-only input returns at once: no
\* call to the prompt endpoint, no activity entry, and the response region and
\* the input field as they were.
C11_BlankPromptRejected ==
  [][(op' = "sendPrompt" /\ trim(promptInput) = <<>>)
       => UNCHANGED <<prVars, activityLog, responseContainer, promptInput>>]_vars

\* C11, its case: Send was pressed on an input holding white space only.
C11_BlankSubmitted ==
  /\ op = "sendPrompt"
  /\ promptInput = <<Space>>
  /\ Sent = {}
  /\ responseContainer = EmptyState

\* C12: a failed submission (the call throws, or resolves with null or with an
\* error field) leaves the input field as it was, and a task of sendPrompt()
\* changes the input field only by clearing it when its call succeeded.
C12_FailedSubmitKeepsInput ==
  [][/\ \A p \in Prompts :
          (PromptSettles(p) /\ PromptFailed(p)) => promptInput' = promptInput
     /\ (PromptStep /\ promptInput' # promptInput)
          => /\ promptInput' = <<>>
             /\ \E p \in Prompts : PromptSettles(p) /\ ~PromptFailed(p)]_vars

\* C12, its case: the backend answered the submission with an error and the
\* draft is still in the input field.
C12_DraftKept ==
  /\ op = "sendPromptSettled"
  /\ responseContainer = ErrorP(<<"Error: ">> \o ErrA)
  /\ promptInput = <<"lunch", Space>>
  /\ promptArg[1] = <<"lunch">>

\* C13: at most one call to the prompt endpoint is in flight at any time.
C13_OnePromptInFlight ==
  Cardinality({p \in Prompts : promptReq[p] = "invoked"}) <= 1

\* C15: a submission that shows the loading state ends in exactly one of two
\* ways, given that its call is answered: on success the agent message is shown
\* and two activity entries are added, the prompt first and the agent message
\* second (the log shows the newest first); on failure an error is shown and no
\* activity entry is added.
C15_LoadingThenDoneOrError ==
  /\ \A p \in Prompts : (promptReq[p] = "invoked") ~> (promptReq[p] = "done")
  /\ [][(op' = "sendPrompt" /\ Sent' # Sent)
          => responseContainer' = Loading(<<"Processing your request...">>)]_vars
  /\ [][\A p \in Prompts :
          PromptSettles(p) =>
            IF PromptFailed(p)
            THEN /\ responseContainer'.cls = "error"
                 /\ UNCHANGED activityLog
            ELSE /\ responseContainer' = AgentResponse(Val(promptReply[p].message))
                 /\ activityLog' =
                      << Entry(<<"Agent: \"">> \o Val(promptReply[p].message) \o <<"\"">>),
                         Entry(<<"Prompt: \"">> \o promptArg[p] \o <<"\"">>) >>
                      \o Items(activityLog)]_vars

\* C15, its case: a submission succeeded and was rendered and logged.
C15_PromptDone ==
  /\ op = "sendPromptSettled"
  /\ promptReq[1] = "done"
  /\ responseContainer = AgentResponse(MsgA)
  /\ activityLog = << Entry(<<"Agent: \"">> \o MsgA \o <<"\"">>),
                      Entry(<<"Prompt: \"">> \o <<"lunch">> \o <<"\"">>) >>

\* --------------------------------------------------- properties: capture
\* C14: at most one processAudio call to the speech endpoint is outstanding at
\* any time.
C14_OneUploadInFlight ==
  Cardinality({k \in Sessions : upload[k] \in {"invoked", "posted"}}) <= 1

\* C19: isRecording and isProcessing are never both true.
C19_OneStatus ==
  ~(isRecording /\ isProcessing)

\* C20: the Blob handed to the upload of a session holds exactly the chunks of
\* that session, in order (a recorder started without a timeslice delivers one
\* chunk, when it stops), and the buffer is empty when a session starts
\* recording.
C20_BlobOfOwnChunks ==
  /\ [](\A k \in Sessions : upload[k] # "none" => blob[k] = <<k>>)
  /\ [][\A k \in Sessions :
          (startPc[k] = "pending" /\ startPc'[k] = "recording") => audioChunks' = <<>>]_vars

\* C16: within one session nothing is buffered and no stop is accepted before
\* startRecording() has completed: every buffered chunk comes from a session
\* whose recorder was started, stop() is accepted only for a session whose
\* recorder is recording, and a click made while the permission request of a
\* session is pending touches neither a recorder nor a stream nor an upload of
\* that session.
C16_StartCompletesFirst ==
  /\ [](\A i \in 1..Len(audioChunks) : startPc[audioChunks[i]] = "recording")
  /\ [][\A k \in Sessions :
          (stopPending'[k] /\ ~stopPending[k])
            => (startPc[k] = "recording" /\ recorder[k] = "recording")]_vars
  /\ [][\A k \in Sessions :
          (op' = "toggleRecording" /\ startPc[k] = "pending")
            => /\ recorder'[k] = "none"
               /\ stream'[k] = "none"
               /\ ~stopPending'[k]
               /\ upload'[k] = "none"
               /\ startPc'[k] = "pending"]_vars

\* C16, its case: a click made while the second permission request was pending
\* stopped the first recorder and left the second session as it was.
C16_ClickDuringPendingStart ==
  /\ op = "toggleRecording"
  /\ startPc[2] = "pending"
  /\ recorder[2] = "none"
  /\ stopPending[1]
  /\ ~stopPending[2]

\* C17: the visualizer stops and is cleared when recording ends. After an
\* accepted stop the visualizer becomes hidden and empty whichever way the
\* upload ends, and the loop of a session that has left recording draws no more:
\* in no state would a frame of such a loop find isRecording true.
C17_VisualizerStops ==
  /\ \A k \in Sessions : stopPending[k] ~> (vizDisplay = "none" /\ ~vizBars)
  /\ [](\A k \in Sessions :
          (animating[k] /\ recorder[k] # "recording") => ~isRecording)

\* ----------------------------------------------------- properties: calls
\* C18: no automatic retries. A stop is accepted by a click only, once per
\* session; a 'process-audio' call is made only by the stop event of an accepted
\* stop, once per session, and its handler posts once; a 'send-prompt' call is
\* made only by sendPrompt() on a Send click or Enter, one per gesture. No other
\* task, a failure included, makes a backend call.
C18_NoAutomaticRetry ==
  /\ [][\A k \in Sessions :
          (stopPending'[k] /\ ~stopPending[k])
            => /\ op' = "toggleRecording"
               /\ upload[k] = "none"
               /\ \A j \in Sessions \ {k} : stopPending'[j] = stopPending[j]]_vars
  /\ [][\A k \in Sessions :
          (upload'[k] = "invoked" /\ upload[k] # "invoked")
            => /\ op' = "recorderStopped"
               /\ upload[k] = "none"
               /\ stopPending[k]
               /\ ~stopPending'[k]]_vars
  /\ [][\A k \in Sessions :
          (upload'[k] = "posted" /\ upload[k] # "posted") => upload[k] = "invoked"]_vars
  /\ [][\A p \in Prompts :
          (promptReq'[p] = "invoked" /\ promptReq[p] # "invoked")
            => /\ op' = "sendPrompt"
               /\ promptReq[p] = "none"
               /\ Cardinality(Sent') = Cardinality(Sent) + 1]_vars

\* C18, its case: an upload failed at the backend, the failure is on the screen,
\* and no call is outstanding or queued.
C18_FailedAndQuiet ==
  /\ op = "processAudioSettled"
  /\ responseContainer = ErrorP(<<"Error: ", "Failed to process audio">>)
  /\ upload[1] = "done"
  /\ \A k \in Sessions : upload[k] \in {"none", "done"} /\ ~stopPending[k]
  /\ Sent = {}

\* ------------------------------------------- properties: control, files, log
\* C21: the capture control shows the session status: class 'recording' and
\* text 'Listening...' exactly while isRecording, the visualizer shown exactly
\* while isRecording, class 'processing' and text 'Processing...' exactly from
\* an accepted stop until the upload has finished, and text 'Speak' with no
\* class exactly while neither.
C21_ControlMatchesStatus ==
  /\ isRecording <=> ("recording" \in btnClasses /\ btnText = "Listening...")
  /\ isRecording <=> (vizDisplay = "flex")
  /\ Processing <=> ("processing" \in btnClasses /\ btnText = "Processing...")
  /\ (~isRecording /\ ~Processing) <=> (btnClasses = {} /\ btnText = "Speak")

\* C22: a temporary recording file exists only while its handler awaits the
\* backend: once the 'process-audio' handler has returned, the file it wrote is
\* gone.
C22_TempFileDiscarded ==
  \A k \in tmpFiles : upload[k] = "posted"

\* Descriptions the renderer logs
Descriptions ==
  { <<"Calendar disconnected">>, <<"Transcribed: \"">> \o TextA \o <<"\"">> }

\* C24: the activity log is append-only and newest first: addActivityItem on
\* the log as it stands yields the new entry followed by the entries there were,
\* in their order, and every task leaves the earlier entries in place below
\* those it adds (none, one or two).
C24_LogAppendOnly ==
  /\ [](\A d \in Descriptions :
          addActivityItem(activityLog, d) = <<Entry(d)>> \o Items(activityLog))
  /\ [][\E n \in 0..2 :
          /\ Len(Items(activityLog')) = Len(Items(activityLog)) + n
          /\ SubSeq(Items(activityLog'), n + 1, Len(Items(activityLog')))
               = Items(activityLog)]_vars

\* C24, its case: a second transcription was logged above the two entries of an
\* auto-executed one.
C24_ThreeEntries ==
  /\ op = "processAudioSettled"
  /\ activityLog = << Entry(<<"Transcribed: \"">> \o TextA \o <<"\"">>),
                      Entry(<<"Agent: \"">> \o MsgA \o <<"\"">>),
                      Entry(<<"Voice prompt: \"">> \o TextA \o <<"\"">>) >>

\* C25: every transcription that completes shows something: the prompt input
\* holds the transcribed text, or the response region holds an error.
C25_OutcomeVisible ==
  [][\A k \in Sessions :
       (upload[k] \in {"settled", "rejected"} /\ upload'[k] = "done")
         => \/ (HasText(reply[k]) /\ promptInput' = Val(reply[k].text))
            \/ responseContainer'.cls = "error"]_vars

\* C23: a submission that succeeds clears only the text it submitted: when the
\* input field holds another text by then (a transcription, or what the user
\* typed since), that text stays.
C23_SuccessClearsOnlySubmitted ==
  [][\A p \in Prompts :
       (/\ PromptSettles(p)
        /\ ~PromptFailed(p)
        /\ trim(promptInput) # <<>>
        /\ trim(promptInput) # promptArg[p])
         => promptInput' = promptInput]_vars

\* ------------------------------------------------------ properties: shell
\* C26: a close request while isQuitting is false only hides the window; the
\* window is destroyed only when isQuitting is true; isQuitting changes only to
\* true, and only through the tray's Quit item or before-quit; a click on the
\* tray icon toggles the window between hidden and shown.
C26_CloseOnlyHides ==
  /\ [](mainWindow = "destroyed" => isQuitting)
  /\ [][(op' = "windowClose" /\ ~isQuitting) => mainWindow' = "hidden"]_vars
  /\ [][(mainWindow' = "destroyed" /\ mainWindow # "destroyed") => isQuitting]_vars
  /\ [][isQuitting' # isQuitting
          => (isQuitting' /\ op' \in {"trayQuit", "beforeQuit"})]_vars
  /\ [][op' = "trayClick"
          => \/ (mainWindow = "shown" /\ mainWindow' = "hidden")
             \/ (mainWindow = "hidden" /\ mainWindow' = "shown")]_vars

\* C26, its case: the window was closed from its title bar while the
\* application was not quitting, and is hidden.
C26_ClosedToTray ==
  /\ op = "windowClose"
  /\ ~isQuitting
  /\ mainWindow = "hidden"

\* -------------------------------------------------- properties: component
\* C27: in the React component a toggle while isProcessing leaves isRecording
\* as it was; every stop ReactMic reports sets isProcessing, and the end of its
\* processAudio call resets it whatever the outcome (a text, an error field, a
\* thrown error), which every reported stop reaches once its call is answered;
\* onTranscription is called at most once per stopped recording, with a text
\* that is not empty.
C27_ComponentProcessing ==
  /\ [][(op' = "componentToggleRecording" /\ component.isProcessing)
          => component'.isRecording = component.isRecording]_vars
  /\ [][\A k \in Sessions :
          /\ (mic[k] = "stopping" /\ mic'[k] # "stopping") => component'.isProcessing
          /\ (mic[k] \in {"settled", "rejected"} /\ mic'[k] # mic[k])
               => (mic'[k] = "done" /\ ~component'.isProcessing)]_vars
  /\ \A k \in Sessions : (mic[k] = "stopping") ~> (mic[k] = "done")
  /\ [](\A k \in Sessions :
          /\ Len(transcriptions[k]) <= 1
          /\ transcriptions[k] # <<>> => (mic[k] = "done" /\ transcriptions[k][1] # <<>>))

\* C27, its case: a first recording ended with a thrown error and a second with
\* a transcription, and isProcessing is false again.
C27_ThrownThenTranscribed ==
  /\ op = "componentProcessAudioSettled"
  /\ mic = <<"done", "done">>
  /\ transcriptions = << <<>>, <<TextA>> >>
  /\ ~component.isProcessing

====
